---- MODULE Spec2Model ----
(***************************************************************************)
(* Model of the numeric toolkit of pyplotting: plot_utils.stack_by_percent,*)
(* the stacking loops of plot_ftir / plot_xrd / plot_uvvis / plot_tauc /   *)
(* plot_tauc_diff, uvvis_methods.differentiate, fit_tauc_linear,           *)
(* calculate_bandgap and the intensity normalisation of the XRD importers. *)
(*                                                                         *)
(* Numbers.  A float64 is modelled as a pair <<n, d>>:                     *)
(*   d > 0 : the finite value n/d, in lowest terms (exact arithmetic, no   *)
(*           rounding; signed zero is not distinguished);                  *)
(*   <<1,0>> = +inf, <<-1,0>> = -inf, <<0,0>> = nan, with the IEEE-754     *)
(*   rules numpy applies (x/0, inf-inf, 0*inf, nan never equal to itself). *)
(* An ndarray is a sequence of such pairs.                                 *)
(*                                                                         *)
(* Each function has a record variable holding its arguments, its locals   *)
(* and its outcome (pc: where the call stands, or the exception it raised) *)
(* and a specification of its own: SpecStack, SpecDiff, SpecBand, SpecImp, *)
(* SpecPlot.  The script body of plot_ftir.py and plot_xrd.py (argument    *)
(* loop, dict(zip(labels, specs)), import, plot, savefig) is the variable  *)
(* cli and the specification SpecCli; there a curve is known by its label  *)
(* and its path, the content of the files being left to np.loadtxt.        *)
(*                                                                         *)
(* Left out: the axes' cosmetics (limits, labels, grid, legend, colours),  *)
(* the covariance curve_fit returns, the smooth = True branch of           *)
(* plot_tauc_diff, and calculate_tauc: plot_tauc and plot_tauc_diff start  *)
(* from tauc_data / tauc_data_diff.                                        *)
(***************************************************************************)
EXTENDS Integers, Sequences, FiniteSets, TLC

VARIABLES stack, plot, diff, band, imp, cli

vars == <<stack, plot, diff, band, imp, cli>>

(* ------------------------------ float64 ------------------------------ *)

Abs(n) == IF n < 0 THEN -n ELSE n

Sign(n) == IF n < 0 THEN -1 ELSE IF n > 0 THEN 1 ELSE 0

RECURSIVE GCD(_, _)
GCD(a, b) == IF b = 0 THEN a ELSE GCD(b, a % b)

NaN == <<0, 0>>

Inf == <<1, 0>>

NegInf == <<-1, 0>>

Zero == <<0, 1>>

\* the value n/d as a float64: lowest terms, positive denominator; n/0 is
\* +-inf or nan
Norm(n, d) ==
    IF d = 0 THEN <<Sign(n), 0>>
    ELSE LET g == GCD(Abs(n), Abs(d))
         IN  <<Sign(d) * (n \div g), Abs(d) \div g>>

Num(n) == <<n, 1>>

IsNaN(a) == a = NaN

IsFinite(a) == a[2] > 0

Neg(a) == <<-a[1], a[2]>>

Add(a, b) ==
    IF IsNaN(a) \/ IsNaN(b) THEN NaN
    ELSE IF ~IsFinite(a) THEN (IF ~IsFinite(b) /\ b # a THEN NaN ELSE a)
    ELSE IF ~IsFinite(b) THEN b
    ELSE Norm(a[1] * b[2] + b[1] * a[2], a[2] * b[2])

Sub(a, b) == Add(a, Neg(b))

Mul(a, b) == Norm(a[1] * b[1], a[2] * b[2])

Div(a, b) ==
    IF IsNaN(a) \/ IsNaN(b) THEN NaN
    ELSE IF ~IsFinite(a) THEN
        (IF ~IsFinite(b) THEN NaN
         ELSE <<a[1] * (IF b[1] < 0 THEN -1 ELSE 1), 0>>)
    ELSE IF ~IsFinite(b) THEN Zero
    ELSE Norm(a[1] * b[2], a[2] * b[1])

\* a == b, a <= b, a < b on float64: every comparison with nan is False
FEq(a, b) == ~IsNaN(a) /\ ~IsNaN(b) /\ a = b

Le(a, b) ==
    /\ ~IsNaN(a)
    /\ ~IsNaN(b)
    /\ IF ~IsFinite(a) /\ ~IsFinite(b) THEN a[1] <= b[1]
       ELSE a[1] * b[2] <= b[1] * a[2]

Lt(a, b) == Le(a, b) /\ a # b

(* ------------------------------ ndarray ------------------------------ *)

\* a.max() and a.min() of a non-empty array: nan if any element is nan
RECURSIVE MaxFrom(_, _)
MaxFrom(a, k) ==
    IF k = Len(a) THEN a[k]
    ELSE LET m == MaxFrom(a, k + 1)
         IN  IF IsNaN(a[k]) \/ IsNaN(m) THEN NaN
             ELSE IF Le(m, a[k]) THEN a[k] ELSE m

RECURSIVE MinFrom(_, _)
MinFrom(a, k) ==
    IF k = Len(a) THEN a[k]
    ELSE LET m == MinFrom(a, k + 1)
         IN  IF IsNaN(a[k]) \/ IsNaN(m) THEN NaN
             ELSE IF Le(a[k], m) THEN a[k] ELSE m

Max(a) == MaxFrom(a, 1)

Min(a) == MinFrom(a, 1)

\* element-wise a - b, a + s, a - s, a / s
ArrSub(a, b) == [j \in DOMAIN a |-> Sub(a[j], b[j])]

ArrAddS(a, s) == [j \in DOMAIN a |-> Add(a[j], s)]

ArrSubS(a, s) == [j \in DOMAIN a |-> Sub(a[j], s)]

ArrDivS(a, s) == [j \in DOMAIN a |-> Div(a[j], s)]

\* (a == b).all()
AllEq(a, b) == \A j \in DOMAIN a : FEq(a[j], b[j])

(* ------------------------------ bounds -------------------------------- *)

\* longest array drawn as a stacking input
ArrLen == 2

\* most curves in one curve set
MaxCurves == 3

\* sample values of the input arrays
Vals == {<<-1, 1>>, <<0, 1>>, <<2, 1>>}

Arrays(n) == [1..n -> Vals]

\* values given for the percent parameter
Percents == {<<-50, 1>>, <<0, 1>>, <<10, 1>>, <<20, 1>>, <<5, 2>>}

\* a call that is not part of the specification being explored
Idle == [pc |-> "idle"]

(* ------------------------- plot_utils.py ------------------------------ *)

\* percent = 10 in the signature of stack_by_percent
DefaultPercent == 10

\* faulty variant: delta0 taken between the two minima
stack_by_percent_min_shift(y0, y1, percent) ==
    IF AllEq(y0, y1) THEN y1
    ELSE LET delta0 == Sub(Min(y1), Min(y0))
             delta1 == Div(Mul(Sub(Max(y0), Min(y0)), percent), Num(100))
         IN  ArrAddS(ArrSubS(y1, delta0), delta1)

stack_by_percent(y0, y1, percent) ==
    IF AllEq(y0, y1) THEN y1
    ELSE LET delta0 == Min(ArrSub(y1, y0))
             delta1 == Div(Mul(Sub(Max(y0), Min(y0)), percent), Num(100))
             y1n    == ArrAddS(ArrSubS(y1, delta0), delta1)
         IN  y1n

(* ---------------- specification: one call of stack_by_percent --------- *)

InitStack ==
    /\ \E n \in 0..ArrLen : \E y0 \in Arrays(n), y1 \in Arrays(n) :
         \E percent \in Percents :
            stack = [pc |-> "call", y0 |-> y0, y1 |-> y1,
                     percent |-> percent, y1n |-> <<>>]
    /\ plot = Idle
    /\ diff = Idle
    /\ band = Idle
    /\ imp = Idle
    /\ cli = Idle

StackCall ==
    /\ stack.pc = "call"
    /\ stack' = [stack EXCEPT
                   !.pc = "done",
                   !.y1n = stack_by_percent(stack.y0, stack.y1, stack.percent)]
    /\ UNCHANGED <<plot, diff, band, imp, cli>>

NextStack == StackCall

SpecStack == InitStack /\ [][NextStack]_vars

(* C1: once stack_by_percent(ref, tgt, p) has returned r for equal-length
   arrays: r is tgt itself when ref and tgt are element-wise identical;
   otherwise the smallest of the differences r[i] - ref[i] is exactly
   p/100 * (max(ref) - min(ref)): no difference is smaller and one index
   attains it. *)
C1_StackOffset ==
    stack.pc = "done" =>
        LET ref == stack.y0
            tgt == stack.y1
            r   == stack.y1n
            d   == Div(Mul(stack.percent, Sub(Max(ref), Min(ref))), Num(100))
        IN  IF \A j \in DOMAIN ref : ref[j] = tgt[j]
            THEN r = tgt
            ELSE /\ DOMAIN r = DOMAIN ref
                 /\ \A j \in DOMAIN r : Le(d, Sub(r[j], ref[j]))
                 /\ \E j \in DOMAIN r : Sub(r[j], ref[j]) = d

\* a call with differing arrays has returned a shifted (changed) target
C1_Witness ==
    /\ stack.pc = "done"
    /\ stack.y0 # stack.y1
    /\ stack.y1n # stack.y1
    /\ Len(stack.y0) = 2

(* --------------------- uvvis_methods.differentiate -------------------- *)

\* longest sequence passed to differentiate
DiffLen == 4

DiffXVals == {<<0, 1>>, <<1, 1>>, <<2, 1>>}

DiffYVals == {<<-1, 1>>, <<2, 1>>}

SeqsUpTo(n, S) == UNION {[1..k -> S] : k \in 0..n}

\* the loop body at 1-based position i (Python index i - 1); y[i+1] past the
\* end of y raises IndexError, which discards the lists built so far
RECURSIVE differentiate_loop(_, _, _, _, _)
differentiate_loop(x, y, i, dx, dydx) ==
    IF i > Len(x) - 1 THEN [outcome |-> "returned", dx |-> dx, dydx |-> dydx]
    ELSE IF i + 1 > Len(y) THEN
        [outcome |-> "IndexError", dx |-> <<>>, dydx |-> <<>>]
    ELSE differentiate_loop(x, y, i + 1,
            Append(dx, x[i]),
            Append(dydx, Div(Sub(y[i + 1], y[i - 1]), Sub(x[i + 1], x[i - 1]))))

\* faulty variant: forward difference instead of the central one
RECURSIVE differentiate_loop_forward(_, _, _, _, _)
differentiate_loop_forward(x, y, i, dx, dydx) ==
    IF i > Len(x) - 1 THEN [outcome |-> "returned", dx |-> dx, dydx |-> dydx]
    ELSE IF i + 1 > Len(y) THEN
        [outcome |-> "IndexError", dx |-> <<>>, dydx |-> <<>>]
    ELSE differentiate_loop_forward(x, y, i + 1,
            Append(dx, x[i]),
            Append(dydx, Div(Sub(y[i + 1], y[i]), Sub(x[i + 1], x[i]))))

differentiate_forward(x, y) == differentiate_loop_forward(x, y, 2, <<>>, <<>>)

\* faulty variant: the loop runs over the interior indices of y, not of x
differentiate_len_y(x, y) ==
    IF Len(y) > Len(x) /\ Len(y) >= 3
    THEN [outcome |-> "IndexError", dx |-> <<>>, dydx |-> <<>>]
    ELSE differentiate_loop(SubSeq(x, 1, Len(y)), y, 2, <<>>, <<>>)

\* for i in range(len(x))[1:-1]
differentiate(x, y) == differentiate_loop(x, y, 2, <<>>, <<>>)

(* ---------------- specification: one call of differentiate ------------ *)

InitDiff ==
    /\ \E x \in SeqsUpTo(DiffLen, DiffXVals), y \in SeqsUpTo(DiffLen, DiffYVals) :
         diff = [pc |-> "call", x |-> x, y |-> y, dx |-> <<>>, dydx |-> <<>>]
    /\ stack = Idle
    /\ plot = Idle
    /\ band = Idle
    /\ imp = Idle
    /\ cli = Idle

DiffCall ==
    /\ diff.pc = "call"
    /\ LET r == differentiate(diff.x, diff.y)
       IN  diff' = [diff EXCEPT !.pc = r.outcome, !.dx = r.dx, !.dydx = r.dydx]
    /\ UNCHANGED <<stack, plot, band, imp, cli>>

NextDiff == DiffCall

SpecDiff == InitDiff /\ [][NextDiff]_vars

\* the precondition of C4: equal lengths n >= 3, x[i+1] # x[i-1] inside
DiffPre(x, y) ==
    /\ Len(x) = Len(y)
    /\ Len(x) >= 3
    /\ \A i \in 2..(Len(x) - 1) : x[i + 1] # x[i - 1]

(* C4: a call of differentiate(x, y) with len(x) = len(y) = n >= 3 and
   x[i+1] # x[i-1] at every interior index returns two sequences of length
   n - 2: x without its first and last element, and at each interior index
   the central difference (y[i+1] - y[i-1]) / (x[i+1] - x[i-1]); x and y are
   the same after the call as before. *)
C4_Differentiate ==
    [][(diff.pc = "call" /\ DiffPre(diff.x, diff.y)) =>
        /\ diff'.pc = "returned"
        /\ diff'.x = diff.x
        /\ diff'.y = diff.y
        /\ Len(diff'.dx) = Len(diff.x) - 2
        /\ Len(diff'.dydx) = Len(diff.x) - 2
        /\ \A i \in 2..(Len(diff.x) - 1) :
              /\ diff'.dx[i - 1] = diff.x[i]
              /\ IsFinite(diff'.dydx[i - 1])
              /\ Mul(diff'.dydx[i - 1], Sub(diff.x[i + 1], diff.x[i - 1]))
                    = Sub(diff.y[i + 1], diff.y[i - 1])]_vars

\* a call on 4 points with two interior derivatives, one of them non-zero
C4_Witness ==
    /\ diff.pc = "returned"
    /\ DiffPre(diff.x, diff.y)
    /\ Len(diff.dydx) = 2
    /\ diff.dydx[1] # Zero

(* C5 as claimed: whenever len(x) = len(y) >= 3 does not hold, differentiate
   returns the empty result (x' and dydx both empty) and does not raise. *)
C5_EmptyOutsidePrecondition ==
    (diff.pc # "call" /\ ~(Len(diff.x) = Len(diff.y) /\ Len(diff.x) >= 3)) =>
        /\ diff.pc = "returned"
        /\ diff.dx = <<>>
        /\ diff.dydx = <<>>

(* C5 amended: the result is empty exactly when x has fewer than 3 elements,
   whatever y is; with len(x) >= 3 a shorter y makes the call raise
   IndexError, and a longer y gives the non-empty result of len(x) - 2
   central differences over the leading len(x) samples of y. *)
C5_EmptyOnlyForShortX ==
    diff.pc # "call" =>
        /\ Len(diff.x) < 3 =>
              (diff.pc = "returned" /\ diff.dx = <<>> /\ diff.dydx = <<>>)
        /\ (Len(diff.x) >= 3 /\ Len(diff.y) < Len(diff.x)) =>
              diff.pc = "IndexError"
        /\ (Len(diff.x) >= 3 /\ Len(diff.y) > Len(diff.x)) =>
              /\ diff.pc = "returned"
              /\ Len(diff.dx) = Len(diff.x) - 2
              /\ Len(diff.dydx) = Len(diff.x) - 2
              /\ \A i \in 2..(Len(diff.x) - 1) :
                    diff.dydx[i - 1] = Div(Sub(diff.y[i + 1], diff.y[i - 1]),
                                           Sub(diff.x[i + 1], diff.x[i - 1]))

\* all three cases outside the precondition occur: here the raising one
C5_Witness ==
    /\ diff.pc = "IndexError"
    /\ Len(diff.x) = 3
    /\ Len(diff.y) = 2

(* ------------- uvvis_methods: linear fit and bandgap ------------------ *)

\* number of samples of a Tauc curve handed to the fit
BandLen == 4

BandYVals == {<<0, 1>>, <<1, 1>>, <<3, 1>>}

\* x of the curve: ascending, descending (energy of ascending wavelengths)
\* and with repeated abscissae
BandXs == { [i \in 1..BandLen |-> Num(i - 1)],
            [i \in 1..BandLen |-> Num(BandLen - i)],
            [i \in 1..BandLen |-> Num((i - 1) \div 2)] }

\* fitting windows <<low_x, high_x>>: several samples, one sample, none
\* (low_x > high_x, or no x inside), bounds lying on samples
Windows == { <<Num(0), Num(1)>>, <<Num(0), Num(2)>>, <<Num(1), Num(1)>>,
             <<Num(1), Num(2)>>, <<Num(2), Num(3)>>, <<Norm(1, 2), Num(3)>>, <<Num(3), Num(1)>>,
             <<Norm(5, 2), Norm(7, 2)>> }

\* slopes a rank-deficient fit may come back with
DegenerateSlopes == {<<0, 1>>, <<1, 1>>}

linear_func(x, k, b) == Add(Mul(k, x), b)

\* faulty variant: the lower bound is exclusive
InWindowStrictLow(v, low_x, high_x) == Lt(low_x, v) /\ Le(v, high_x)

\* np.logical_and(x >= low_x, x <= high_x) at one sample
InWindow(v, low_x, high_x) == Le(low_x, v) /\ Le(v, high_x)

\* a[mask]: the elements of a at the indices whose x lies in the window
RECURSIVE SelectFrom(_, _, _, _, _)
SelectFrom(a, x, low_x, high_x, i) ==
    IF i > Len(x) THEN <<>>
    ELSE (IF InWindow(x[i], low_x, high_x) THEN <<a[i]>> ELSE <<>>)
            \o SelectFrom(a, x, low_x, high_x, i + 1)

RECURSIVE SumFrom(_, _)
SumFrom(a, i) == IF i > Len(a) THEN Zero ELSE Add(a[i], SumFrom(a, i + 1))

Sum(a) == SumFrom(a, 1)

ArrMul(a, b) == [j \in DOMAIN a |-> Mul(a[j], b[j])]

\* scipy.optimize.curve_fit(linear_func, xdata, ydata), p0 and method left
\* to their defaults: the set of (k, b) it may return.  Fewer observations
\* than the 2 parameters is refused with an exception; otherwise the result
\* is the least-squares line, unique when xdata holds two distinct values;
\* when all xdata coincide every line through (x, mean(y)) is a minimiser
\* and which one comes back is left open.
curve_fit(xdata, ydata) ==
    LET n   == Len(xdata)
        Sx  == Sum(xdata)
        Sy  == Sum(ydata)
        Sxx == Sum(ArrMul(xdata, xdata))
        Sxy == Sum(ArrMul(xdata, ydata))
        den == Sub(Mul(Num(n), Sxx), Mul(Sx, Sx))
        k   == Div(Sub(Mul(Num(n), Sxy), Mul(Sx, Sy)), den)
        b   == Div(Sub(Sy, Mul(k, Sx)), Num(n))
    IN  IF n < 2 THEN {[outcome |-> "curve_fit_error", popt |-> <<>>]}
        ELSE IF den = Zero THEN
            {[outcome |-> "returned",
              popt |-> <<kd, Sub(Div(Sy, Num(n)), Mul(kd, xdata[1]))>>] :
                kd \in DegenerateSlopes}
        ELSE {[outcome |-> "returned", popt |-> <<k, b>>]}

\* faulty variant: the fit is made over the whole curve
fit_tauc_linear_unrestricted(x, y, low_x, high_x) ==
    { [outcome |-> f.outcome, x_lim |-> x, y_lim |-> y, popt |-> f.popt] :
        f \in curve_fit(x, y) }

fit_tauc_linear(x, y, low_x, high_x) ==
    LET x_lim == SelectFrom(x, x, low_x, high_x, 1)
        y_lim == SelectFrom(y, x, low_x, high_x, 1)
    IN  { [outcome |-> f.outcome, x_lim |-> x_lim, y_lim |-> y_lim,
           popt |-> f.popt] : f \in curve_fit(x_lim, y_lim) }

NoFit == [outcome |-> "none", x_lim |-> <<>>, y_lim |-> <<>>, popt |-> <<>>]

NoBandgap == [outcome |-> "none"]

\* calculate_bandgap after its two fits came back as baseline_fitted_data
\* and bandgap_fitted_data; an exception of a fit leaves the function
bandgap_result(x_tauc, baseline_fitted_data, bandgap_fitted_data) ==
    IF baseline_fitted_data.outcome # "returned"
    THEN [outcome |-> baseline_fitted_data.outcome]
    ELSE IF bandgap_fitted_data.outcome # "returned"
    THEN [outcome |-> bandgap_fitted_data.outcome]
    ELSE LET k_baseline == baseline_fitted_data.popt[1]
             b_baseline == baseline_fitted_data.popt[2]
             k_bandgap  == bandgap_fitted_data.popt[1]
             b_bandgap  == bandgap_fitted_data.popt[2]
             bandgap_x  == Div(Sub(b_baseline, b_bandgap),
                               Sub(k_bandgap, k_baseline))
             bandgap_y  == linear_func(bandgap_x, k_bandgap, b_bandgap)
         IN  [outcome |-> "returned",
              k_baseline |-> k_baseline, b_baseline |-> b_baseline,
              k_bandgap |-> k_bandgap, b_bandgap |-> b_bandgap,
              bandgap |-> <<bandgap_x, bandgap_y>>,
              baseline |-> <<x_tauc,
                  [j \in DOMAIN x_tauc |->
                      linear_func(x_tauc[j], k_baseline, b_baseline)]>>,
              bandgap_line |-> <<x_tauc,
                  [j \in DOMAIN x_tauc |->
                      linear_func(x_tauc[j], k_bandgap, b_bandgap)]>>]

\* the results calculate_bandgap may end with
calculate_bandgap(x_tauc, y_tauc, baseline_low_x, baseline_high_x, bandgap_low_x, bandgap_high_x) ==
    { bandgap_result(x_tauc, fb, fg) :
        fb \in fit_tauc_linear(x_tauc, y_tauc, baseline_low_x, baseline_high_x),
        fg \in fit_tauc_linear(x_tauc, y_tauc, bandgap_low_x, bandgap_high_x) }

(* ------ specification: fit_tauc_linear and calculate_bandgap calls ----- *)

InitBand ==
    /\ \E x \in BandXs, y \in [1..BandLen -> BandYVals], wb \in Windows,
          wg \in Windows :
         band = [pc |-> "call", x_tauc |-> x, y_tauc |-> y,
                 baseline_low_x |-> wb[1], baseline_high_x |-> wb[2],
                 bandgap_low_x |-> wg[1], bandgap_high_x |-> wg[2],
                 fit |-> NoFit, res |-> NoBandgap]
    /\ stack = Idle
    /\ plot = Idle
    /\ diff = Idle
    /\ imp = Idle
    /\ cli = Idle

\* fit_tauc_linear(x_tauc, y_tauc, bandgap_low_x, bandgap_high_x)
FitCall ==
    /\ band.pc = "call"
    /\ \E f \in fit_tauc_linear(band.x_tauc, band.y_tauc,
                                band.bandgap_low_x, band.bandgap_high_x) :
         band' = [band EXCEPT !.pc = "fit_done", !.fit = f]
    /\ UNCHANGED <<stack, plot, diff, imp, cli>>

BandgapCall ==
    /\ band.pc = "call"
    /\ \E r \in calculate_bandgap(band.x_tauc, band.y_tauc,
                                  band.baseline_low_x, band.baseline_high_x,
                                  band.bandgap_low_x, band.bandgap_high_x) :
         band' = [band EXCEPT !.pc = "bandgap_done", !.res = r]
    /\ UNCHANGED <<stack, plot, diff, imp, cli>>

NextBand == FitCall \/ BandgapCall

SpecBand == InitBand /\ [][NextBand]_vars

\* the indices of x whose value lies in [low_x, high_x], both bounds included
WinIdx(x, low_x, high_x) ==
    {i \in DOMAIN x : ~Lt(x[i], low_x) /\ ~Lt(high_x, x[i])}

\* the j-th smallest element of the set of indices I
NthOf(I, j) == CHOOSE i \in I : Cardinality({m \in I : m <= i}) = j

(* C6: a call fit_tauc_linear(x, y, low_x, high_x) fits exactly the points
   (x[i], y[i]) with low_x <= x[i] <= high_x, paired by index and in the
   order of the curve; when it returns (k, b), that line is a least-squares
   line of those points (the residuals and the x-weighted residuals sum to
   zero); and when fewer than 2 points are selected the call ends in an
   exception and returns no fit. *)
C6_FitWindow ==
    band.pc = "fit_done" =>
        LET I == WinIdx(band.x_tauc, band.bandgap_low_x, band.bandgap_high_x)
            f == band.fit
            r == [j \in DOMAIN f.x_lim |->
                    Sub(f.y_lim[j], Add(Mul(f.popt[1], f.x_lim[j]), f.popt[2]))]
        IN  /\ Len(f.x_lim) = Cardinality(I)
            /\ Len(f.y_lim) = Cardinality(I)
            /\ \A j \in 1..Cardinality(I) :
                  /\ f.x_lim[j] = band.x_tauc[NthOf(I, j)]
                  /\ f.y_lim[j] = band.y_tauc[NthOf(I, j)]
            /\ Cardinality(I) < 2 => (f.outcome # "returned" /\ f.popt = <<>>)
            /\ f.outcome = "returned" =>
                  /\ Sum(r) = Zero
                  /\ Sum(ArrMul(r, f.x_lim)) = Zero

\* a window holding a single sample (on its inclusive bound) was refused
C6_Witness ==
    /\ band.pc = "fit_done"
    /\ band.fit.outcome = "curve_fit_error"
    /\ Len(band.fit.x_lim) = 1
    /\ band.fit.x_lim[1] = band.bandgap_low_x

\* the window holds two distinct x and all its points lie on one line
OnLine(x, y, I) ==
    /\ \E i \in I, j \in I : x[i] # x[j]
    /\ LET p == CHOOSE p \in I \X I : x[p[1]] # x[p[2]]
           k == Div(Sub(y[p[2]], y[p[1]]), Sub(x[p[2]], x[p[1]]))
           b == Sub(y[p[1]], Mul(k, x[p[1]]))
       IN  \A i \in I : y[i] = Add(Mul(k, x[i]), b)

\* <<k, b>> of the line through the points of the window
LineOf(x, y, I) ==
    LET p == CHOOSE p \in I \X I : x[p[1]] # x[p[2]]
        k == Div(Sub(y[p[2]], y[p[1]]), Sub(x[p[2]], x[p[1]]))
    IN  <<k, Sub(y[p[1]], Mul(k, x[p[1]]))>>

(* C7: when the points of the baseline window lie exactly on a line
   y = k_base*x + b_base and those of the edge window on a line
   y = k_edge*x + b_edge with k_edge # k_base (two distinct x in each
   window), calculate_bandgap returns x* = (b_base - b_edge)/(k_edge - k_base)
   and y* = k_edge*x* + b_edge, which depend on the points inside the two
   windows only, and returns both lines evaluated at every x of the input
   curve (same x, same length). *)
C7_BandgapIntersection ==
    LET x  == band.x_tauc
        y  == band.y_tauc
        Ib == WinIdx(x, band.baseline_low_x, band.baseline_high_x)
        Ig == WinIdx(x, band.bandgap_low_x, band.bandgap_high_x)
        lb == LineOf(x, y, Ib)
        lg == LineOf(x, y, Ig)
        xs == Div(Sub(lb[2], lg[2]), Sub(lg[1], lb[1]))
        r  == band.res
    IN  (/\ band.pc = "bandgap_done"
         /\ OnLine(x, y, Ib)
         /\ OnLine(x, y, Ig)
         /\ lg[1] # lb[1]) =>
            /\ r.outcome = "returned"
            /\ IsFinite(xs)
            /\ r.bandgap[1] = xs
            /\ r.bandgap[2] = Add(Mul(lg[1], xs), lg[2])
            /\ r.baseline[1] = x
            /\ r.bandgap_line[1] = x
            /\ DOMAIN r.baseline[2] = DOMAIN x
            /\ DOMAIN r.bandgap_line[2] = DOMAIN x
            /\ \A j \in DOMAIN x :
                  /\ r.baseline[2][j] = Add(Mul(lb[1], x[j]), lb[2])
                  /\ r.bandgap_line[2][j] = Add(Mul(lg[1], x[j]), lg[2])

\* a flat baseline and a rising edge meeting at (1, 0), fitted on a curve
\* that has a sample outside both windows lying on neither line
C7_Witness ==
    /\ band.pc = "bandgap_done"
    /\ band.res.outcome = "returned"
    /\ OnLine(band.x_tauc, band.y_tauc,
              WinIdx(band.x_tauc, band.baseline_low_x, band.baseline_high_x))
    /\ OnLine(band.x_tauc, band.y_tauc,
              WinIdx(band.x_tauc, band.bandgap_low_x, band.bandgap_high_x))
    /\ band.res.k_baseline = Zero
    /\ band.res.k_bandgap = Num(1)
    /\ band.res.bandgap = <<Num(1), Zero>>
    /\ \E j \in DOMAIN band.x_tauc :
          /\ j \notin WinIdx(band.x_tauc, band.baseline_low_x, band.baseline_high_x)
          /\ j \notin WinIdx(band.x_tauc, band.bandgap_low_x, band.bandgap_high_x)
          /\ band.y_tauc[j] # band.res.baseline[2][j]
          /\ band.y_tauc[j] # band.res.bandgap_line[2][j]

(* C8 as claimed: whenever the two fitted lines have equal slopes
   (k_edge = k_base), calculate_bandgap ends in an error and returns no
   intersection point. *)
C8_ParallelLinesFail ==
    ~(/\ band.pc = "bandgap_done"
      /\ band.res.outcome = "returned"
      /\ band.res.k_bandgap = band.res.k_baseline)

(* ---------------- plot_xrd_methods: the importers ---------------------- *)

\* most rows in an imported file
ImpLen == 2

\* most files in one import_xrds call
ImpFiles == 1

ImpVals == {<<-2, 1>>, <<-1, 1>>, <<0, 1>>, <<2, 1>>}

DVals == {<<0, 1>>, <<1, 1>>, <<2, 1>>}

Wavelengths == {<<1, 1>>, <<3, 1>>}

NonEmptyArrays(n, S) == UNION {[1..k -> S] : k \in 1..n}

\* faulty variant: multiplies by the maximum
normalize_times(y) == [j \in DOMAIN y |-> Mul(y[j], Max(y))]

\* y / y.max()
normalize(y) == ArrDivS(y, Max(y))

\* 2 * np.arcsin(wavelength / 2 / d) * 180 / np.pi for one d, kept as the
\* argument of the arcsine: the angle is nan exactly when that argument is
\* nan or lies outside [-1, 1]
bragg(wavelength, d) ==
    LET s == Div(Div(wavelength, Num(2)), d)
    IN  [sin |-> s,
         nan |-> ~(Le(Num(-1), s) /\ Le(s, Num(1)))]

\* a[~np.isnan(dthetta)]
RECURSIVE DropNaN(_, _, _)
DropNaN(a, dthetta, j) ==
    IF j > Len(dthetta) THEN <<>>
    ELSE (IF dthetta[j].nan THEN <<>> ELSE <<a[j]>>)
            \o DropNaN(a, dthetta, j + 1)

(* ------------- specification: import_xrds, import_diff_peaks ----------- *)

InitImp ==
    /\ \/ \E n \in 1..ImpFiles :
            \E files \in [1..n -> NonEmptyArrays(ImpLen, ImpVals)] :
               imp = [pc |-> "loop", fn |-> "import_xrds", files |-> files,
                      data |-> <<>>, d |-> <<>>, i |-> <<>>,
                      wavelength |-> Zero, i_rel |-> <<>>, dthetta |-> <<>>]
       \/ \E n \in 1..ImpLen :
            \E d \in [1..n -> DVals], i \in [1..n -> ImpVals],
               wavelength \in Wavelengths :
               imp = [pc |-> "loaded", fn |-> "import_diff_peaks",
                      files |-> <<>>, data |-> <<>>, d |-> d, i |-> i,
                      wavelength |-> wavelength, i_rel |-> <<>>,
                      dthetta |-> <<>>]
    /\ stack = Idle
    /\ plot = Idle
    /\ diff = Idle
    /\ band = Idle
    /\ cli = Idle

\* one pass of the loop of import_xrds: the file's x is its row numbers
ImportXrdsIter ==
    /\ imp.pc = "loop"
    /\ imp.fn = "import_xrds"
    /\ Len(imp.data) < Len(imp.files)
    /\ LET label == Len(imp.data) + 1
           y     == imp.files[label]
           x     == [j \in DOMAIN y |-> Num(j)]
           y_rel == normalize(y)
       IN  imp' = [imp EXCEPT !.data = Append(@, [x |-> x, y_rel |-> y_rel,
                                                  label |-> label])]
    /\ UNCHANGED <<stack, plot, diff, band, cli>>

ImportXrdsReturn ==
    /\ imp.pc = "loop"
    /\ imp.fn = "import_xrds"
    /\ Len(imp.data) = Len(imp.files)
    /\ imp' = [imp EXCEPT !.pc = "returned"]
    /\ UNCHANGED <<stack, plot, diff, band, cli>>

\* import_diff_peaks up to i_rel = i / i.max()
ImportDiffPeaksNormalize ==
    /\ imp.pc = "loaded"
    /\ imp.fn = "import_diff_peaks"
    /\ imp' = [imp EXCEPT !.pc = "normalized", !.i_rel = normalize(imp.i)]
    /\ UNCHANGED <<stack, plot, diff, band, cli>>

\* import_diff_peaks from dthetta = ... to its return
ImportDiffPeaksReturn ==
    /\ imp.pc = "normalized"
    /\ imp.fn = "import_diff_peaks"
    /\ LET dthetta == [j \in DOMAIN imp.d |-> bragg(imp.wavelength, imp.d[j])]
       IN  imp' = [imp EXCEPT !.pc = "returned",
                              !.i_rel = DropNaN(imp.i_rel, dthetta, 1),
                              !.dthetta = DropNaN(dthetta, dthetta, 1)]
    /\ UNCHANGED <<stack, plot, diff, band, cli>>

NextImp ==
    \/ ImportXrdsIter
    \/ ImportXrdsReturn
    \/ ImportDiffPeaksNormalize
    \/ ImportDiffPeaksReturn

SpecImp == InitImp /\ [][NextImp]_vars

\* the arrays the importers have normalised, beside the raw array of each
Normalised ==
    IF imp.fn = "import_xrds"
    THEN {<<imp.files[k], imp.data[k].y_rel>> : k \in DOMAIN imp.data}
    ELSE IF imp.pc = "normalized" THEN {<<imp.i, imp.i_rel>>} ELSE {}

(* C9 as claimed: for every non-empty intensity array y the importers
   normalise, normalising the result again gives the same array:
   normalize(normalize(y)) == normalize(y) (read generously: two nan at the
   same index count as the same). *)
C9_NormalizeIdempotent ==
    \A p \in Normalised : normalize(p[2]) = p[2]

(* C9 amended: for every non-empty intensity array y whose maximum is
   positive, the normalised array has maximum 1 and normalising it again
   gives the same array element-wise. *)
C9_NormalizeIdempotentPositiveMax ==
    \A p \in Normalised :
        Lt(Zero, Max(p[1])) =>
            /\ \E j \in DOMAIN p[2] : p[2][j] = Num(1)
            /\ \A j \in DOMAIN p[2] : Le(p[2][j], Num(1))
            /\ AllEq(normalize(p[2]), p[2])

\* an imported file with a positive maximum other than 1 and a negative row
C9_Witness ==
    /\ imp.fn = "import_xrds"
    /\ imp.pc = "returned"
    /\ \E k \in DOMAIN imp.data :
          /\ imp.files[k] = <<Num(-1), Num(2)>>
          /\ imp.data[k].y_rel = <<Norm(-1, 2), Num(1)>>

(* --------------------- the stacking loops of the plots ----------------- *)

\* percent = 20 in the call of stack_by_percent in plot_uvvis
UvvisPercent == 20

\* curves of three samples
PlotVals == {<<0, 1>>, <<1, 1>>}

PlotArrays == [{1, 2, 3} -> PlotVals]

\* the abscissae of every curve of a plot
PlotX == <<Num(1), Num(2), Num(3)>>

\* power argument of plot_tauc and plot_tauc_diff
Powers == {<<1, 2>>, <<2, 1>>, <<1, 1>>}

\* the four window arguments of plot_tauc, the same for every curve
\* (<<baseline_low_x, baseline_high_x, bandgap_low_x, bandgap_high_x>>), or
\* <<>> for the default None
PlotWindows == { <<>>,
                 <<Num(1), Num(2), Num(2), Num(3)>>,
                 <<Num(1), Num(3), Num(1), Num(3)>>,
                 <<Num(1), Num(1), Num(2), Num(3)>> }

PlotFns == {"plot_ftir", "plot_xrd", "plot_uvvis", "plot_tauc", "plot_tauc_diff"}

\* ax.plot(x, y, label = label) of a curve; overlay holds what plot_tauc
\* draws with it when the fitting windows are given
Plotted(label, y, overlay) == [label |-> label, y |-> y, overlay |-> overlay]

\* y0 = data[0][1] (tmp_absorbance = data[0][2], tmp_y_tauc = tauc_data[0][2],
\* tmp_y = tauc_data_diff[0][2]): an empty list raises IndexError
plot_start(p) ==
    IF p.data = <<>> THEN [p EXCEPT !.pc = "IndexError"]
    ELSE [p EXCEPT !.pc = "loop", !.y0 = p.data[1].y, !.i = 1]

\* faulty variant: the next curve is raised above the unshifted previous curve
plot_ftir_iter_raw_reference(p) ==
    LET y1  == p.data[p.i].y
        y1n == stack_by_percent(p.y0, y1, Num(DefaultPercent))
    IN  [p EXCEPT !.plotted = Append(@, Plotted(p.data[p.i].label, y1n, NoBandgap)),
                  !.y0 = y1,
                  !.i = @ + 1]

\* the loop body of plot_ftir (plot_ftir.py and plot_ftir_methods.py)
plot_ftir_iter(p) ==
    LET y1  == p.data[p.i].y
        y1n == stack_by_percent(p.y0, y1, Num(DefaultPercent))
    IN  [p EXCEPT !.plotted = Append(@, Plotted(p.data[p.i].label, y1n, NoBandgap)),
                  !.y0 = y1n,
                  !.i = @ + 1]

\* the loop body of plot_xrd (plot_xrd.py and plot_xrd_methods.py)
plot_xrd_iter(p) ==
    LET y1  == p.data[p.i].y
        y1n == stack_by_percent(p.y0, y1, Num(DefaultPercent))
    IN  [p EXCEPT !.plotted = Append(@, Plotted(p.data[p.i].label, y1n, NoBandgap)),
                  !.y0 = y1n,
                  !.i = @ + 1]

\* the loop body of plot_uvvis; p.i = 1 is Python's i = 0
plot_uvvis_iter(p) ==
    LET absorbance == IF p.i # 1
                      THEN stack_by_percent(p.y0, p.data[p.i].y, Num(UvvisPercent))
                      ELSE p.data[p.i].y
    IN  [p EXCEPT !.plotted = Append(@, Plotted(p.data[p.i].label, absorbance, NoBandgap)),
                  !.y0 = IF p.i # 1 THEN absorbance ELSE @,
                  !.i = @ + 1]

\* faulty variant: the bandgap point is drawn where it was found, while the
\* curve and both fit lines are raised
plot_tauc_iter_unshifted_point(p, b) ==
    LET y_tauc        == p.data[p.i].y
        y_tauc_raised == stack_by_percent(p.y0, y_tauc, Num(DefaultPercent))
        delta_y       == ArrSub(y_tauc_raised, y_tauc)
        overlay       ==
            IF b.outcome # "returned" THEN NoBandgap
            ELSE [outcome |-> "returned",
                  bandgap_x |-> b.bandgap[1], bandgap_y |-> b.bandgap[2],
                  baseline_x |-> b.baseline[1],
                  baseline_y |-> IF p.i = 1 THEN b.baseline[2]
                                 ELSE [j \in DOMAIN delta_y |->
                                         Add(b.baseline[2][j], delta_y[j])],
                  bandgap_line_x |-> b.bandgap_line[1],
                  bandgap_line_y |-> IF p.i = 1 THEN b.bandgap_line[2]
                                     ELSE [j \in DOMAIN delta_y |->
                                         Add(b.bandgap_line[2][j], delta_y[j])]]
    IN  IF b.outcome \notin {"returned", "none"}
        THEN [p EXCEPT !.pc = b.outcome]
        ELSE [p EXCEPT
                !.plotted = Append(@, Plotted(p.data[p.i].label,
                                IF p.i # 1 THEN y_tauc_raised ELSE y_tauc,
                                overlay)),
                !.y0 = IF p.i # 1 THEN y_tauc_raised ELSE @,
                !.i = @ + 1]

\* the loop body of plot_tauc once calculate_bandgap has come back with b
\* (NoBandgap when the windows are None)
plot_tauc_iter(p, b) ==
    LET y_tauc        == p.data[p.i].y
        y_tauc_raised == stack_by_percent(p.y0, y_tauc, Num(DefaultPercent))
        delta_y       == ArrSub(y_tauc_raised, y_tauc)
        overlay       ==
            IF b.outcome # "returned" THEN NoBandgap
            ELSE IF p.i = 1 THEN
                [outcome |-> "returned",
                 bandgap_x |-> b.bandgap[1], bandgap_y |-> b.bandgap[2],
                 baseline_x |-> b.baseline[1], baseline_y |-> b.baseline[2],
                 bandgap_line_x |-> b.bandgap_line[1],
                 bandgap_line_y |-> b.bandgap_line[2]]
            ELSE
                [outcome |-> "returned",
                 bandgap_x |-> b.bandgap[1],
                 bandgap_y |-> Add(b.bandgap[2], delta_y[1]),
                 baseline_x |-> b.baseline[1],
                 baseline_y |-> [j \in DOMAIN delta_y |->
                                    Add(b.baseline[2][j], delta_y[j])],
                 bandgap_line_x |-> b.bandgap_line[1],
                 bandgap_line_y |-> [j \in DOMAIN delta_y |->
                                    Add(b.bandgap_line[2][j], delta_y[j])]]
    IN  IF b.outcome \notin {"returned", "none"}
        THEN [p EXCEPT !.pc = b.outcome]
        ELSE [p EXCEPT
                !.plotted = Append(@, Plotted(p.data[p.i].label,
                                IF p.i # 1 THEN y_tauc_raised ELSE y_tauc,
                                overlay)),
                !.y0 = IF p.i # 1 THEN y_tauc_raised ELSE @,
                !.i = @ + 1]

\* the loop body of plot_tauc_diff, smooth = False: the curves are the
\* Python lists differentiate returns, and for i != 0 stack_by_percent
\* evaluates (y0 == y1).all() on the bool that comparing two lists gives
plot_tauc_diff_iter(p) ==
    IF p.i # 1 THEN [p EXCEPT !.pc = "AttributeError"]
    ELSE [p EXCEPT !.plotted = Append(@, Plotted(p.data[p.i].label,
                                                 p.data[p.i].y, NoBandgap)),
                   !.i = @ + 1]

\* ax.set_title of plot_tauc
plot_tauc_title(power) ==
    IF power = <<2, 1>> THEN "Direct transitions"
    ELSE IF power = <<1, 2>> THEN "Indirect transitions"
    ELSE ""

\* ax.set_title of plot_tauc_diff
plot_tauc_diff_title(power) ==
    IF power = <<2, 1>> THEN "Indirect transitions"
    ELSE IF power = <<1, 2>> THEN "Direct transitions"
    ELSE ""

(* -------------------- specification: the plot functions ---------------- *)

InitPlot ==
    /\ \E fn \in PlotFns, n \in 0..MaxCurves :
         \E ys \in [1..n -> PlotArrays] :
            \E power \in (IF fn \in {"plot_tauc", "plot_tauc_diff"}
                          THEN Powers ELSE {Zero}),
               w \in (IF fn = "plot_tauc" THEN PlotWindows ELSE {<<>>}) :
               plot = [pc |-> "start", fn |-> fn,
                       data |-> [k \in 1..n |->
                                   [label |-> k, x |-> PlotX, y |-> ys[k]]],
                       power |-> power, windows |-> w,
                       i |-> 0, y0 |-> <<>>, plotted |-> <<>>, title |-> ""]
    /\ stack = Idle
    /\ diff = Idle
    /\ band = Idle
    /\ imp = Idle
    /\ cli = Idle

PlotStep(fn, pc, next) ==
    /\ plot.fn = fn
    /\ plot.pc = pc
    /\ plot' = next
    /\ UNCHANGED <<stack, diff, band, imp, cli>>

InLoop == plot.pc = "loop" /\ plot.i <= Len(plot.data)

AfterLoop == plot.pc = "loop" /\ plot.i > Len(plot.data)

PlotFtirStart == PlotStep("plot_ftir", "start", plot_start(plot))

PlotFtirIter == InLoop /\ PlotStep("plot_ftir", "loop", plot_ftir_iter(plot))

PlotFtirReturn ==
    AfterLoop /\ PlotStep("plot_ftir", "loop", [plot EXCEPT !.pc = "done"])

PlotXrdStart == PlotStep("plot_xrd", "start", plot_start(plot))

PlotXrdIter == InLoop /\ PlotStep("plot_xrd", "loop", plot_xrd_iter(plot))

PlotXrdReturn ==
    AfterLoop /\ PlotStep("plot_xrd", "loop", [plot EXCEPT !.pc = "done"])

PlotUvvisStart == PlotStep("plot_uvvis", "start", plot_start(plot))

PlotUvvisIter == InLoop /\ PlotStep("plot_uvvis", "loop", plot_uvvis_iter(plot))

PlotUvvisReturn ==
    AfterLoop /\ PlotStep("plot_uvvis", "loop", [plot EXCEPT !.pc = "done"])

PlotTaucStart == PlotStep("plot_tauc", "start", plot_start(plot))

PlotTaucIter ==
    /\ InLoop
    /\ \E b \in (IF plot.windows = <<>> THEN {NoBandgap}
                 ELSE calculate_bandgap(plot.data[plot.i].x, plot.data[plot.i].y,
                                        plot.windows[1], plot.windows[2],
                                        plot.windows[3], plot.windows[4])) :
          PlotStep("plot_tauc", "loop", plot_tauc_iter(plot, b))

PlotTaucReturn ==
    AfterLoop /\ PlotStep("plot_tauc", "loop",
                    [plot EXCEPT !.pc = "done",
                                 !.title = plot_tauc_title(plot.power)])

PlotTaucDiffStart == PlotStep("plot_tauc_diff", "start", plot_start(plot))

PlotTaucDiffIter ==
    InLoop /\ PlotStep("plot_tauc_diff", "loop", plot_tauc_diff_iter(plot))

PlotTaucDiffReturn ==
    AfterLoop /\ PlotStep("plot_tauc_diff", "loop",
                    [plot EXCEPT !.pc = "done",
                                 !.title = plot_tauc_diff_title(plot.power)])

NextPlot ==
    \/ PlotFtirStart
    \/ PlotFtirIter
    \/ PlotFtirReturn
    \/ PlotXrdStart
    \/ PlotXrdIter
    \/ PlotXrdReturn
    \/ PlotUvvisStart
    \/ PlotUvvisIter
    \/ PlotUvvisReturn
    \/ PlotTaucStart
    \/ PlotTaucIter
    \/ PlotTaucReturn
    \/ PlotTaucDiffStart
    \/ PlotTaucDiffIter
    \/ PlotTaucDiffReturn

SpecPlot == InitPlot /\ [][NextPlot]_vars

\* max - min of an array, written out for the claims
Range(a) == Sub(Max(a), Min(a))

\* percent/100 of the vertical range of curve a
Gap(a, percent) == Div(Mul(Num(percent), Range(a)), Num(100))

(* C2 as claimed: in plot_ftir and plot_xrd, for every consecutive pair of
   plotted curves, the later curve lies at every index strictly above the
   earlier one, by at least 10% of the earlier curve's vertical range. *)
C2_NeverOverlap ==
    plot.fn \in {"plot_ftir", "plot_xrd"} =>
        \A k \in 1..(Len(plot.plotted) - 1) :
            LET lo == plot.plotted[k].y
                hi == plot.plotted[k + 1].y
            IN  \A j \in DOMAIN lo :
                    /\ Lt(lo[j], hi[j])
                    /\ Le(Gap(lo, 10), Sub(hi[j], lo[j]))

(* C2 amended: in plot_ftir and plot_xrd, for every consecutive pair of
   plotted curves whose later input curve is not element-wise identical to
   the earlier plotted curve, the later plotted curve lies at every index
   above the earlier one by at least 10% of the earlier curve's vertical
   range, hence strictly above whenever that range is not zero; a later
   input curve identical to the earlier plotted curve is plotted unshifted
   and coincides with it. *)
C2_StackedAboveUnlessIdentical ==
    plot.fn \in {"plot_ftir", "plot_xrd"} =>
        \A k \in 1..(Len(plot.plotted) - 1) :
            LET lo == plot.plotted[k].y
                hi == plot.plotted[k + 1].y
                y1 == plot.data[k + 1].y
            IN  IF \A j \in DOMAIN lo : y1[j] = lo[j]
                THEN hi = lo
                ELSE \A j \in DOMAIN lo :
                        /\ Le(Gap(lo, 10), Sub(hi[j], lo[j]))
                        /\ Range(lo) # Zero => Lt(lo[j], hi[j])

\* three curves plotted by plot_ftir, each strictly above the one before
C2_Witness ==
    /\ plot.fn = "plot_ftir"
    /\ plot.pc = "done"
    /\ Len(plot.plotted) = 3
    /\ \A k \in 1..2 : \A j \in 1..3 :
          Lt(plot.plotted[k].y[j], plot.plotted[k + 1].y[j])

(* C3: in plot_ftir, plot_xrd, plot_uvvis and plot_tauc the curves are
   plotted in input order; the first plotted curve is the first input curve
   unshifted; for k >= 1 the k-th plotted curve is
   stack_by_percent(plotted curve k-1, input curve k, percent), the reference
   being the already shifted previous curve, with percent = 20 in plot_uvvis
   and 10 in the others; a call that returns has plotted all n curves. *)
C3_StackOnPreviousPlotted ==
    plot.fn \in {"plot_ftir", "plot_xrd", "plot_uvvis", "plot_tauc"} =>
        /\ Len(plot.plotted) <= Len(plot.data)
        /\ plot.pc = "done" => Len(plot.plotted) = Len(plot.data)
        /\ \A k \in DOMAIN plot.plotted :
              /\ plot.plotted[k].label = plot.data[k].label
              /\ plot.plotted[k].y =
                    IF k = 1 THEN plot.data[1].y
                    ELSE stack_by_percent(plot.plotted[k - 1].y, plot.data[k].y,
                            IF plot.fn = "plot_uvvis" THEN Num(20) ELSE Num(10))

\* a third curve was plotted whose place differs from the one it would get
\* above the raw second curve and from the one it would get above the first
C3_Witness ==
    /\ plot.fn \in {"plot_ftir", "plot_xrd", "plot_uvvis", "plot_tauc"}
    /\ plot.pc = "done"
    /\ Len(plot.plotted) = 3
    /\ plot.plotted[3].y # stack_by_percent(plot.data[2].y, plot.data[3].y, Num(10))
    /\ plot.plotted[3].y # stack_by_percent(plot.data[1].y, plot.data[3].y, Num(10))
    /\ plot.plotted[3].y # plot.data[3].y

(* C10 as claimed: plot_tauc and plot_tauc_diff title a plot of power 2
   "Direct transitions" and a plot of power 0.5 "Indirect transitions", as
   both docstrings say. *)
C10_SameTitleConvention ==
    (plot.fn \in {"plot_tauc", "plot_tauc_diff"} /\ plot.pc = "done") =>
        /\ plot.power = <<2, 1>> => plot.title = "Direct transitions"
        /\ plot.power = <<1, 2>> => plot.title = "Indirect transitions"

(* C12: whenever plot_tauc draws a curve after the first, the curve is raised
   by one and the same finite amount d at all its samples
   (plotted[j] - input[j] = d for every j), with d = 0 when the input curve
   is element-wise identical to the previous plotted curve; and when the
   fitting windows are given, the bandgap point drawn with that curve keeps
   the x calculate_bandgap found, the two fit lines drawn are the fitted
   lines raised by d (same slope, intercept + d), and a finite bandgap
   point, which lay on both fitted lines, lies after the shift on the raised
   edge line and on the raised baseline. *)
C12_ShiftKeepsIntersection ==
    [][(/\ plot.fn = "plot_tauc"
        /\ plot.pc = "loop"
        /\ plot.i >= 2
        /\ Len(plot'.plotted) = Len(plot.plotted) + 1) =>
            LET k == plot.i
                x == plot.data[k].x
                y == plot.data[k].y
                r == plot'.plotted[k].y
                o == plot'.plotted[k].overlay
                d == Sub(r[1], y[1])
            IN  /\ Len(plot'.plotted) = k
                /\ IsFinite(d)
                /\ \A j \in DOMAIN y : Sub(r[j], y[j]) = d
                /\ (\A j \in DOMAIN y : y[j] = plot.plotted[k - 1].y[j]) => d = Zero
                /\ plot.windows # <<>> =>
                     \E b \in calculate_bandgap(x, y, plot.windows[1], plot.windows[2],
                                                plot.windows[3], plot.windows[4]) :
                        /\ b.outcome = "returned"
                        /\ o.outcome = "returned"
                        /\ o.bandgap_x = b.bandgap[1]
                        /\ o.baseline_x = x
                        /\ o.bandgap_line_x = x
                        /\ LineOf(x, o.baseline_y, DOMAIN x)
                              = <<b.k_baseline, Add(b.b_baseline, d)>>
                        /\ LineOf(x, o.bandgap_line_y, DOMAIN x)
                              = <<b.k_bandgap, Add(b.b_bandgap, d)>>
                        /\ IsFinite(b.bandgap[1]) =>
                              /\ IsFinite(o.bandgap_y)
                              /\ o.bandgap_y = Add(Mul(b.k_bandgap, o.bandgap_x),
                                                   Add(b.b_bandgap, d))
                              /\ o.bandgap_y = Add(Mul(b.k_baseline, o.bandgap_x),
                                                   Add(b.b_baseline, d))]_vars

\* a second curve of plot_tauc was raised by a non-zero amount and drawn with
\* a finite bandgap point, the crossing of two different fit lines
C12_Witness ==
    /\ plot.fn = "plot_tauc"
    /\ Len(plot.plotted) >= 2
    /\ plot.plotted[2].overlay.outcome = "returned"
    /\ IsFinite(plot.plotted[2].overlay.bandgap_x)
    /\ plot.plotted[2].y # plot.data[2].y
    /\ plot.plotted[2].overlay.baseline_y[1] # plot.plotted[2].overlay.bandgap_line_y[1]

(* ------------- the scripts plot_ftir.py and plot_xrd.py ---------------- *)

\* most values given after one of the flags --specs / --raw and --labels
CliVals == 2

CliFns == {"plot_ftir", "plot_xrd"}

\* sys.argv[0]
Prog(fn) == IF fn = "plot_ftir" THEN "plot_ftir.py" ELSE "plot_xrd.py"

\* the flag that introduces the data files of a script
SpecsFlag(fn) == IF fn = "plot_ftir" THEN "--specs" ELSE "--raw"

\* file names given on the command line, one of them with two dashes inside
PathToks == {"p", "q", "r--s"}

LabelToks == {"a", "b"}

\* what follows --out: nothing or one file name
OutVals == {<<>>, <<"o">>}

\* '--' in tok, for the words a command line is made of here
HasDashes(tok) ==
    tok \in {"--specs", "--raw", "--labels", "--out", "--help", "r--s"}

FlagKinds == {"specs", "labels", "out", "help"}

\* the flag groups of a command line: any of them, each at most once, in
\* any order
FlagOrders ==
    {s \in UNION {[1..k -> FlagKinds] : k \in 0..4} :
        \A i \in DOMAIN s, j \in DOMAIN s : i # j => s[i] # s[j]}

\* the words after the program name: each flag followed by its values
RECURSIVE CommandLine(_, _, _, _, _)
CommandLine(fn, order, ps, ls, os) ==
    IF order = <<>> THEN <<>>
    ELSE (IF order[1] = "specs" THEN <<SpecsFlag(fn)>> \o ps
          ELSE IF order[1] = "labels" THEN <<"--labels">> \o ls
          ELSE IF order[1] = "out" THEN <<"--out">> \o os
          ELSE <<"--help">>)
            \o CommandLine(fn, Tail(order), ps, ls, os)

\* what  while not len(args) == 0 and '--' not in args[0]: l.append(args.pop(0))
\* appends: the leading words of args without '--' inside
RECURSIVE TakeValues(_)
TakeValues(args) ==
    IF args = <<>> \/ HasDashes(args[1]) THEN <<>>
    ELSE <<args[1]>> \o TakeValues(Tail(args))

\* and what it leaves in args
RECURSIVE DropValues(_)
DropValues(args) ==
    IF args = <<>> \/ HasDashes(args[1]) THEN args
    ELSE DropValues(Tail(args))

(* One pass of the body of  while args:  in a script.  c.specs is the list
   the script calls specs (plot_ftir.py) or raw_data (plot_xrd.py); c.out is
   <<>> for the initial list() and <<name>> for the string name.  The three
   tests of args[0] follow one another without an else, so the second and
   the third are made on what the branch before left in args, and on an
   emptied args they raise IndexError, as does args.pop(0) after --out when
   nothing follows it. *)

\* plot_ftir.py
plot_ftir_args_iter(c) ==
    LET a0     == c.args
        specs  == IF a0[1] = "--specs"
                  THEN c.specs \o TakeValues(Tail(a0)) ELSE c.specs
        a1     == IF a0[1] = "--specs" THEN DropValues(Tail(a0)) ELSE a0
    IN  IF a1 = <<>>
        THEN [c EXCEPT !.exc = "IndexError", !.args = a1, !.specs = specs]
        ELSE
        LET labels == IF a1[1] = "--labels"
                      THEN c.labels \o TakeValues(Tail(a1)) ELSE c.labels
            a2     == IF a1[1] = "--labels" THEN DropValues(Tail(a1)) ELSE a1
        IN  IF a2 = <<>> \/ (a2[1] = "--out" /\ Len(a2) = 1)
            THEN [c EXCEPT !.exc = "IndexError", !.args = <<>>,
                           !.specs = specs, !.labels = labels]
            ELSE
            LET out == IF a2[1] = "--out" THEN <<a2[2]>> ELSE c.out
                a3  == IF a2[1] = "--out" THEN Tail(Tail(a2)) ELSE a2
            IN  [c EXCEPT !.args = IF a3 = <<>> THEN a3 ELSE Tail(a3),
                              !.specs = specs, !.labels = labels,
                              !.out = out]

\* plot_xrd.py: the same with --raw, and quit() on --help
plot_xrd_args_iter(c) ==
    LET a0     == c.args
        specs  == IF a0[1] = "--raw"
                  THEN c.specs \o TakeValues(Tail(a0)) ELSE c.specs
        a1     == IF a0[1] = "--raw" THEN DropValues(Tail(a0)) ELSE a0
    IN  IF a1 = <<>>
        THEN [c EXCEPT !.exc = "IndexError", !.args = a1, !.specs = specs]
        ELSE
        LET labels == IF a1[1] = "--labels"
                      THEN c.labels \o TakeValues(Tail(a1)) ELSE c.labels
            a2     == IF a1[1] = "--labels" THEN DropValues(Tail(a1)) ELSE a1
        IN  IF a2 = <<>> \/ (a2[1] = "--out" /\ Len(a2) = 1)
            THEN [c EXCEPT !.exc = "IndexError", !.args = <<>>,
                           !.specs = specs, !.labels = labels]
            ELSE
            LET out == IF a2[1] = "--out" THEN <<a2[2]>> ELSE c.out
                a3  == IF a2[1] = "--out" THEN Tail(Tail(a2)) ELSE a2
            IN  IF a3 # <<>> /\ a3[1] = "--help"
                    THEN [c EXCEPT !.exc = "SystemExit", !.args = a3,
                                   !.specs = specs, !.labels = labels,
                                   !.out = out]
                    ELSE [c EXCEPT !.args = IF a3 = <<>> THEN a3 ELSE Tail(a3),
                                   !.specs = specs, !.labels = labels,
                                   !.out = out]

\* d[k] = v on a dict kept as the sequence of its <<key, value>> items in
\* insertion order: a key already present keeps its place and takes v
dict_setitem(d, k, v) ==
    IF \E m \in DOMAIN d : d[m][1] = k
    THEN [m \in DOMAIN d |-> IF d[m][1] = k THEN <<k, v>> ELSE d[m]]
    ELSE Append(d, <<k, v>>)

\* dict(zip(labels, specs)) from pair i on: zip stops at the shorter list
RECURSIVE dict_zip_from(_, _, _, _)
dict_zip_from(labels, specs, i, d) ==
    IF i > Len(labels) \/ i > Len(specs) THEN d
    ELSE dict_zip_from(labels, specs, i + 1,
                       dict_setitem(d, labels[i], specs[i]))

dict_zip(labels, specs) == dict_zip_from(labels, specs, 1, <<>>)

\* import_ftirs(paths) / import_xrds(paths): one curve per item of the dict,
\* in its order; the arrays np.loadtxt reads are stood for by the path
import_curves(paths) ==
    [m \in DOMAIN paths |-> [label |-> paths[m][1], path |-> paths[m][2]]]

\* plot_ftir(ax, data) / plot_xrd(ax, data) as the script sees it: data[0]
\* of an empty list raises IndexError, otherwise every curve is drawn
plot_curves(c) ==
    IF c.data = <<>> THEN [c EXCEPT !.exc = "IndexError"]
    ELSE [c EXCEPT !.pc = "plotted",
                   !.plotted = [m \in DOMAIN c.data |-> c.data[m]]]

\* fig.savefig(fname = out, ...): out is still the empty list when the loop
\* never assigned it, which savefig does not take for a file
savefig(c) ==
    IF c.out = <<>> THEN [c EXCEPT !.exc = "savefig_error"]
    ELSE [c EXCEPT !.pc = "saved"]

(* --------------------- specification: the scripts ---------------------- *)

InitCli ==
    /\ \E fn \in CliFns, order \in FlagOrders,
          ps \in SeqsUpTo(CliVals, PathToks), ls \in SeqsUpTo(CliVals, LabelToks),
          os \in OutVals :
         LET argv == <<Prog(fn)>> \o CommandLine(fn, order, ps, ls, os)
         IN  cli = [pc |-> "loop", exc |-> "", fn |-> fn, argv |-> argv,
                    args |-> argv, specs |-> <<>>, labels |-> <<>>,
                    out |-> <<>>, paths |-> <<>>, data |-> <<>>,
                    plotted |-> <<>>]
    /\ stack = Idle
    /\ plot = Idle
    /\ diff = Idle
    /\ band = Idle
    /\ imp = Idle

\* a statement of a script runs: none does after an exception or quit()
CliStep(pc, next) ==
    /\ cli.pc = pc
    /\ cli.exc = ""
    /\ cli' = next
    /\ UNCHANGED <<stack, plot, diff, band, imp>>

FtirArgsIter ==
    /\ cli.fn = "plot_ftir"
    /\ cli.args # <<>>
    /\ CliStep("loop", plot_ftir_args_iter(cli))

XrdArgsIter ==
    /\ cli.fn = "plot_xrd"
    /\ cli.args # <<>>
    /\ CliStep("loop", plot_xrd_args_iter(cli))

\* paths = dict(zip(labels, specs)), once args is empty
ZipPaths ==
    /\ cli.args = <<>>
    /\ CliStep("loop", [cli EXCEPT !.pc = "zipped",
                                   !.paths = dict_zip(cli.labels, cli.specs)])

\* data = import_ftirs(paths)
ImportCurves ==
    CliStep("zipped", [cli EXCEPT !.pc = "imported",
                                  !.data = import_curves(cli.paths)])

PlotCurves == CliStep("imported", plot_curves(cli))

SaveFigure == CliStep("plotted", savefig(cli))

NextCli ==
    \/ FtirArgsIter
    \/ XrdArgsIter
    \/ ZipPaths
    \/ ImportCurves
    \/ PlotCurves
    \/ SaveFigure

SpecCli == InitCli /\ [][NextCli]_vars

(* C11 as claimed: once a script has imported its curves, the i-th label is
   paired with the i-th path, one curve per pair in command-line order, when
   the script holds as many labels as paths; and when the two numbers
   differ no curve is imported or plotted (the run ends in a failure). *)
C11_PairedOrFails ==
    cli.pc \in {"imported", "plotted", "saved"} =>
        /\ Len(cli.labels) = Len(cli.specs) =>
              cli.data = [m \in DOMAIN cli.labels |->
                            [label |-> cli.labels[m], path |-> cli.specs[m]]]
        /\ Len(cli.labels) # Len(cli.specs) =>
              (cli.data = <<>> /\ cli.plotted = <<>>)

\* the three flags of a script
CliFlags(fn) == {SpecsFlag(fn), "--labels", "--out"}

\* the words a command line gives after flag, up to the next flag or the end
GivenAfter(argv, fn, flag) ==
    LET i == CHOOSE i \in DOMAIN argv : argv[i] = flag
        J == {j \in DOMAIN argv : j > i /\ argv[j] \in CliFlags(fn)}
        e == IF J = {} THEN Len(argv)
             ELSE (CHOOSE j \in J : \A m \in J : j <= m) - 1
    IN  SubSeq(argv, i + 1, e)

\* each of the three flags appears exactly once, --help does not appear,
\* --specs / --raw and --labels are each followed by one or more values,
\* --out by one, and no value has '--' inside
EachFlagOnce(argv, fn) ==
    /\ \A f \in CliFlags(fn) :
          Cardinality({i \in DOMAIN argv : argv[i] = f}) = 1
    /\ \A i \in DOMAIN argv : HasDashes(argv[i]) => argv[i] \in CliFlags(fn)
    /\ GivenAfter(argv, fn, SpecsFlag(fn)) # <<>>
    /\ GivenAfter(argv, fn, "--labels") # <<>>
    /\ Len(GivenAfter(argv, fn, "--out")) = 1

(* C13 as claimed: for every command line in which --specs (--raw), --labels
   and --out each appear exactly once, in any order, each followed by its
   values, the argument loop does not raise, and once it has ended the path
   list, the label list and the output path hold exactly the values given
   after the respective flag, in the order given. *)
C13_ParseAnyOrder ==
    EachFlagOnce(cli.argv, cli.fn) =>
        /\ ~(cli.pc = "loop" /\ cli.exc # "")
        /\ cli.pc # "loop" =>
              /\ cli.specs = GivenAfter(cli.argv, cli.fn, SpecsFlag(cli.fn))
              /\ cli.labels = GivenAfter(cli.argv, cli.fn, "--labels")
              /\ cli.out = GivenAfter(cli.argv, cli.fn, "--out")

====
